---- MODULE Spec2Model ----
(***************************************************************************)
(* Time x Money damages calculator (src/app.py).                           *)
(*                                                                         *)
(* The script is a Streamlit page: every run executes the file top to      *)
(* bottom on the current widget values.  The module models                 *)
(*   - Python's float (IEEE-754 binary64, round to nearest, ties to even)  *)
(*     on arbitrary-precision naturals, since TLC's integers are           *)
(*     32 bits wide;                                                       *)
(*   - the pure helpers of app.py as operators;                            *)
(*   - one run of the script as a sequence of steps (Spec);                *)
(*   - the helpers applied to arbitrary arguments (SpecFn).                *)
(***************************************************************************)
EXTENDS Integers, Sequences, FiniteSets, TLC

(***************************************************************************)
(* Naturals of any size: little-endian sequences of limbs in 0..Base-1     *)
(* with no leading zero limb; <<>> is zero.                                *)
(***************************************************************************)
LimbBits == 14
Base == 2^LimbBits

RECURSIVE Pow2(_)
Pow2(k) == IF k = 0 THEN 1 ELSE 2 * Pow2(k - 1)

RECURSIVE IntBitLen(_)
IntBitLen(n) == IF n = 0 THEN 0 ELSE 1 + IntBitLen(n \div 2)

RECURSIVE NNorm(_)
NNorm(s) ==
  IF s = <<>> THEN s
  ELSE IF s[Len(s)] = 0 THEN NNorm(SubSeq(s, 1, Len(s) - 1)) ELSE s

RECURSIVE NFromInt(_)
NFromInt(n) == IF n = 0 THEN <<>> ELSE <<n % Base>> \o NFromInt(n \div Base)

RECURSIVE NToInt(_)
NToInt(s) == IF s = <<>> THEN 0 ELSE s[1] + Base * NToInt(Tail(s))

RECURSIVE NCmpAt(_, _, _)
NCmpAt(a, b, i) ==
  IF i = 0 THEN 0
  ELSE IF a[i] # b[i] THEN (IF a[i] < b[i] THEN -1 ELSE 1)
  ELSE NCmpAt(a, b, i - 1)

NCmp(a, b) ==
  IF Len(a) # Len(b) THEN (IF Len(a) < Len(b) THEN -1 ELSE 1)
  ELSE NCmpAt(a, b, Len(a))

RECURSIVE NAddC(_, _, _, _)
NAddC(a, b, i, c) ==
  IF i > Len(a) /\ i > Len(b) THEN (IF c = 0 THEN <<>> ELSE <<c>>)
  ELSE LET x == (IF i <= Len(a) THEN a[i] ELSE 0)
                + (IF i <= Len(b) THEN b[i] ELSE 0) + c
       IN  <<x % Base>> \o NAddC(a, b, i + 1, x \div Base)

NAdd(a, b) == NAddC(a, b, 1, 0)

\* a - b for a >= b
RECURSIVE NSubC(_, _, _, _)
NSubC(a, b, i, c) ==
  IF i > Len(a) THEN <<>>
  ELSE LET x == a[i] - (IF i <= Len(b) THEN b[i] ELSE 0) - c
       IN  IF x < 0 THEN <<x + Base>> \o NSubC(a, b, i + 1, 1)
           ELSE <<x>> \o NSubC(a, b, i + 1, 0)

NSub(a, b) == NNorm(NSubC(a, b, 1, 0))

\* a * d for a one-limb factor 0 <= d < 2^16
RECURSIVE NMulC(_, _, _, _)
NMulC(a, d, i, c) ==
  IF i > Len(a) THEN NFromInt(c)
  ELSE LET x == a[i] * d + c
       IN  <<x % Base>> \o NMulC(a, d, i + 1, x \div Base)

NMulSmall(a, d) == NNorm(NMulC(a, d, 1, 0))

NShiftLimbs(a, k) ==
  IF a = <<>> THEN a ELSE [i \in 1..k |-> 0] \o a

RECURSIVE NMulAt(_, _, _)
NMulAt(a, b, j) ==
  IF j > Len(b) THEN <<>>
  ELSE NAdd(NMulSmall(a, b[j]), NShiftLimbs(NMulAt(a, b, j + 1), 1))

NMul(a, b) == NNorm(NMulAt(a, b, 1))

NBitLen(a) ==
  IF a = <<>> THEN 0 ELSE LimbBits * (Len(a) - 1) + IntBitLen(a[Len(a)])

NShl(a, k) ==
  NShiftLimbs(NMulSmall(a, Pow2(k % LimbBits)), k \div LimbBits)

\* quotient and remainder of a by a small divisor 0 < d < 2^17
RECURSIVE NDivSmallAt(_, _, _, _)
NDivSmallAt(a, d, i, rem) ==
  IF i = 0 THEN [q |-> <<>>, r |-> rem]
  ELSE LET cur  == rem * Base + a[i]
           rest == NDivSmallAt(a, d, i - 1, cur % d)
       IN  [q |-> rest.q \o <<cur \div d>>, r |-> rest.r]

NDivSmall(a, d) ==
  LET x == NDivSmallAt(a, d, Len(a), 0) IN [q |-> NNorm(x.q), r |-> NFromInt(x.r)]

NDropLimbs(a, k) == IF k >= Len(a) THEN <<>> ELSE SubSeq(a, k + 1, Len(a))

NShr(a, k) ==
  NDivSmall(NDropLimbs(a, k \div LimbBits), Pow2(k % LimbBits)).q

NBit(a, i) ==  \* bit i (0 = least significant) of a
  LET l == i \div LimbBits + 1
  IN  IF l > Len(a) THEN 0 ELSE (a[l] \div Pow2(i % LimbBits)) % 2

NIsOdd(a) == a # <<>> /\ a[1] % 2 = 1

\* schoolbook binary long division: bits i-1 .. 0 of a still to bring down
\* (Len(q2) is read at every step so that the quotient is computed as it grows)
RECURSIVE NDivBits(_, _, _, _, _)
NDivBits(a, b, i, rem, q) ==
  IF i = 0 THEN [q |-> q, r |-> rem]
  ELSE LET r2 == NAdd(NAdd(rem, rem), NFromInt(NBit(a, i - 1)))
           q2 == NAdd(q, q)
       IN  IF Len(q2) >= 0 /\ NCmp(r2, b) >= 0
           THEN NDivBits(a, b, i - 1, NSub(r2, b), NAdd(q2, <<1>>))
           ELSE NDivBits(a, b, i - 1, r2, q2)

\* the top la - t bits of a are below b: the division starts from them
NDivLong(a, b, t) == NDivBits(a, b, t, NShr(a, t), <<>>)

NDivModBl(a, b, la, lb) ==
  IF lb <= 16 THEN NDivSmall(a, NToInt(b))
  ELSE NDivLong(a, b, IF la >= lb THEN la - lb + 1 ELSE 0)

NDivMod(a, b) == NDivModBl(a, b, NBitLen(a), NBitLen(b))

RECURSIVE NTrailingZeros(_)
NTrailingZeros(a) ==  \* a # <<>>
  IF a[1] = 0 THEN LimbBits + NTrailingZeros(Tail(a))
  ELSE IF a[1] % 2 = 0 THEN 1 + NTrailingZeros(<<a[1] \div 2>>)
  ELSE 0

(***************************************************************************)
(* Python float: a finite binary64 value is (-1)^neg * m * 2^e with m odd  *)
(* (or zero) and below 2^Prec, so that equal values are equal records.     *)
(* The exponent is not ranged: at the magnitudes the model reaches nothing *)
(* overflows or underflows.  NaN is float("nan") / np.nan.                 *)
(***************************************************************************)
Prec == 53

NaN  == [k |-> "nan", neg |-> FALSE, m |-> <<>>, e |-> 0]
Zero == [k |-> "num", neg |-> FALSE, m |-> <<>>, e |-> 0]

IsNum(x) == x.k = "num"

\* Python raises ZeroDivisionError on a zero divisor; what is computed from the
\* quotient is never computed
ZeroDivisionError == [k |-> "ZeroDivisionError", neg |-> FALSE, m |-> <<>>, e |-> 0]

FNormTz(neg, n, e, tz) == [k |-> "num", neg |-> neg, m |-> NShr(n, tz), e |-> e + tz]

FNorm(neg, n, e) == IF n = <<>> THEN Zero ELSE FNormTz(neg, n, e, NTrailingZeros(n))

\* q, or q + 1 when the bits dropped after q are above a half, or are a half
\* and q is odd
HalfEven(q, half, rest) == IF half /\ (rest \/ NIsOdd(q)) THEN NAdd(q, <<1>>) ELSE q

\* n / 2^shift (plus the excess when sticky) rounded to an integer, shift > 0
NShrRound(n, shift, sticky) ==
  HalfEven(NShr(n, shift), NBit(n, shift - 1) = 1,
           sticky \/ NShl(NShr(n, shift - 1), shift - 1) # n)

\* the float nearest to n * 2^e (plus a positive excess below one unit of n
\* when sticky); ties to even.  With sticky, n has at least Prec + 2 bits.
FRoundBl(neg, n, e, sticky, bl) ==
  FNorm(neg, IF bl <= Prec THEN n ELSE NShrRound(n, bl - Prec, sticky),
        IF bl <= Prec THEN e ELSE e + (bl - Prec))

FRound(neg, n, e, sticky) == FRoundBl(neg, n, e, sticky, NBitLen(n))

\* the float nearest to (a * 2^ea) / (b * 2^eb), b # 0
FDivQr(neg, qr, e) == FRound(neg, qr.q, e, qr.r # <<>>)

\* a is scaled by 2^k so that the quotient has at least Prec + 2 bits
FDivShift(neg, a, bo, e, k) == FDivQr(neg, NDivMod(NShl(a, k), bo), e - k)

FDivGap(neg, a, bo, e, gap) == FDivShift(neg, a, bo, e, IF gap > 0 THEN gap ELSE 0)

FDivOdd(neg, a, bo, e) == FDivGap(neg, a, bo, e, Prec + 2 + NBitLen(bo) - NBitLen(a))

FDivTz(neg, a, ea, b, eb, tz) == FDivOdd(neg, a, NShr(b, tz), ea - eb - tz)

FDivNat(neg, a, ea, b, eb) ==
  IF a = <<>> THEN Zero ELSE FDivTz(neg, a, ea, b, eb, NTrailingZeros(b))

FromInt(n) == FRound(n < 0, NFromInt(IF n < 0 THEN -n ELSE n), 0, FALSE)

\* the float a decimal literal p/q denotes (p, q integers)
Lit(p, q) == FDivNat(p < 0, NFromInt(IF p < 0 THEN -p ELSE p), 0, NFromInt(q), 0)

FNeg(x) == IF IsNum(x) /\ x.m # <<>> THEN [x EXCEPT !.neg = ~x.neg] ELSE x
FAbs(x) == IF IsNum(x) THEN [x EXCEPT !.neg = FALSE] ELSE x

FMul(x, y) ==
  IF x.k = "ZeroDivisionError" \/ y.k = "ZeroDivisionError" THEN ZeroDivisionError
  ELSE IF ~IsNum(x) \/ ~IsNum(y) THEN NaN
  ELSE FRound(x.neg # y.neg, NMul(x.m, y.m), x.e + y.e, FALSE)

FDiv(x, y) ==
  IF x.k = "ZeroDivisionError" \/ y.k = "ZeroDivisionError" THEN ZeroDivisionError
  ELSE IF ~IsNum(x) \/ ~IsNum(y) THEN NaN
  ELSE IF y.m = <<>> THEN ZeroDivisionError
  ELSE FDivNat(x.neg # y.neg, x.m, x.e, y.m, y.e)

\* exact sum of two finite floats, then rounded
\* ax and ay are the magnitudes in units of 2^e, c the sign of ax - ay; a zero
\* difference is +0.0
FAddCmp(xneg, yneg, ax, ay, e, c) ==
  FRound(IF xneg = yneg \/ c > 0 THEN xneg ELSE yneg,
         IF xneg = yneg THEN NAdd(ax, ay)
         ELSE IF c >= 0 THEN NSub(ax, ay) ELSE NSub(ay, ax),
         e, FALSE)

FAddAligned(xneg, yneg, ax, ay, e) == FAddCmp(xneg, yneg, ax, ay, e, NCmp(ax, ay))

FAddAt(x, y, e) == FAddAligned(x.neg, y.neg, NShl(x.m, x.e - e), NShl(y.m, y.e - e), e)

FAdd(x, y) ==
  IF x.k = "ZeroDivisionError" \/ y.k = "ZeroDivisionError" THEN ZeroDivisionError
  ELSE IF ~IsNum(x) \/ ~IsNum(y) THEN NaN
  ELSE FAddAt(x, y, IF x.e < y.e THEN x.e ELSE y.e)

FSub(x, y) == FAdd(x, FNeg(y))

\* sign of |x| - |y| for finite floats: by the position of the leading bit,
\* then by the aligned mantissas
FCmpTop(x, y, tx, ty) ==
  IF x.m = <<>> \/ y.m = <<>>
  THEN (IF x.m = y.m THEN 0 ELSE IF x.m = <<>> THEN -1 ELSE 1)
  ELSE IF tx # ty THEN (IF tx < ty THEN -1 ELSE 1)
  ELSE NCmp(NShl(x.m, IF x.e >= y.e THEN x.e - y.e ELSE 0),
            NShl(y.m, IF x.e >= y.e THEN 0 ELSE y.e - x.e))

FCmpMag(x, y) == FCmpTop(x, y, x.e + NBitLen(x.m), y.e + NBitLen(y.m))

\* sign of x - y for finite floats
FCmp(x, y) ==
  IF x.neg # y.neg THEN (IF x.neg THEN -1 ELSE 1)
  ELSE (IF x.neg THEN -1 ELSE 1) * FCmpMag(x, y)

\* comparisons with NaN are false
FLt(x, y) == IsNum(x) /\ IsNum(y) /\ FCmp(x, y) < 0
FLe(x, y) == IsNum(x) /\ IsNum(y) /\ FCmp(x, y) <= 0
FGt(x, y) == FLt(y, x)
FEq(x, y) == IsNum(x) /\ IsNum(y) /\ x = y

\* max(a, b) of Python: b if b > a else a
FMax(a, b) == IF FGt(b, a) THEN b ELSE a

isfinite(x) == IsNum(x)

\* round-half-even of x * scale to an integer, scale a small positive integer:
\* what format(x, ".0f") (scale 1) and format(x, ".2f") (scale 100) print,
\* as a signed count of units
FmtUnits(neg, n, e) ==
  [neg |-> neg, n |-> IF e >= 0 THEN NShl(n, e) ELSE NShrRound(n, -e, FALSE), nan |-> FALSE]

FmtScaled(x, scale) ==
  IF ~IsNum(x) THEN [neg |-> FALSE, n |-> <<>>, nan |-> TRUE]
  ELSE FmtUnits(x.neg, NMulSmall(x.m, scale), x.e)

(***************************************************************************)
(* Constants & helpers (app.py lines 38-128)                               *)
(***************************************************************************)
TIME_UNITS == [second |-> 1, minute |-> 60, hour |-> 3600, day |-> 86400]

\* list(TIME_UNITS.keys()): insertion order
UnitKeys == <<"second", "minute", "hour", "day">>

COIN_PRESETS ==
  << [name |-> "Penny",   val |-> Lit(1, 100)],
     [name |-> "Nickel",  val |-> Lit(5, 100)],
     [name |-> "Dime",    val |-> Lit(10, 100)],
     [name |-> "Quarter", val |-> Lit(25, 100)],
     [name |-> "Dollar",  val |-> Lit(100, 100)] >>

\* f"${x:,.2f}": the number of cents printed
money(x) == FmtScaled(x, 100)

\* a datetime is a date (day ordinal) and a time of day; the tzinfo is the
\* same LA_TZ object on every datetime, so subtraction ignores it
start_of_day(dt_date) == [date |-> dt_date, sec |-> 0, us |-> 0]

\* end_of_day with the time left at midnight
end_of_day_midnight(dt_date) == [date |-> dt_date, sec |-> 0, us |-> 0]

end_of_day(dt_date) == [date |-> dt_date, sec |-> 86399, us |-> 999999]

\* datetime.__sub__: a timedelta, normalised as Python does
\* (0 <= seconds < 86400, 0 <= microseconds < 10**6, days of either sign)
DtSub(b, a) ==
  LET u0 == b.us - a.us
      s0 == (b.sec - a.sec) - (IF u0 < 0 THEN 1 ELSE 0)
      u  == IF u0 < 0 THEN u0 + 1000000 ELSE u0
      s  == IF s0 < 0 THEN s0 + 86400 ELSE s0
      d  == (b.date - a.date) - (IF s0 < 0 THEN 1 ELSE 0)
  IN  [days |-> d, seconds |-> s, microseconds |-> u]

\* timedelta.total_seconds(): ((days*86400 + seconds)*10**6 + microseconds) / 10**6
\* (i * 10**6 + us) / 10**6 for whole seconds i of either sign
MicrosOver(i, us, M) ==
  FDivNat(i < 0,
          IF i >= 0 THEN NAdd(NMul(NFromInt(i), M), NFromInt(us))
          ELSE NSub(NMul(NFromInt(-i), M), NFromInt(us)),
          0, M, 0)

td_total_seconds(td) ==
  MicrosOver(td.days * 86400 + td.seconds, td.microseconds, NFromInt(1000000))

elapsed_seconds(start_dt, end_dt) ==
  FMax(td_total_seconds(DtSub(end_dt, start_dt)), Zero)

all_units(seconds) ==
  [seconds |-> seconds,
   minutes |-> FDiv(seconds, FromInt(60)),
   hours   |-> FDiv(seconds, FromInt(3600)),
   days    |-> FDiv(seconds, FromInt(86400))]

\* units = seconds / TIME_UNITS[unit]
UnitsOf(seconds, unit) == FDiv(seconds, FromInt(TIME_UNITS[unit]))

\* compute_amount with the conversion factor multiplied instead of divided
compute_amount_times(seconds, unit, rate_per_unit) ==
  FMul(FMul(seconds, FromInt(TIME_UNITS[unit])), rate_per_unit)

compute_amount(seconds, unit, rate_per_unit) == FMul(UnitsOf(seconds, unit), rate_per_unit)

SolveFor(units, target_amount) ==
  IF FGt(units, Zero) THEN FDiv(target_amount, units) ELSE NaN

solve_rate_for_target(seconds, unit, target_amount) ==
  SolveFor(UnitsOf(seconds, unit), target_amount)

add_future_seconds(add_days, add_years) ==
  FMul(FAdd(add_days, FMul(add_years, Lit(3652425, 10000))), FromInt(86400))

\* bool(x) of a float: nonzero (NaN included)
Truthy(x) == ~(IsNum(x) /\ x.m = <<>>)

\* one pass of the loop body of closest_scenarios; idx is the row label the
\* DataFrame gives the row (its position in the loop)
\* the row with the percentage computed whatever the target
RowOfDivides(target_amount, tu, coin, idx, amt, diff) ==
  [idx |-> idx, unit |-> tu, coin |-> coin.name, rate |-> coin.val,
   amount |-> amt, diff |-> diff,
   pct |-> FMul(FDiv(diff, target_amount), FromInt(100))]

RowOf(target_amount, tu, coin, idx, amt, diff) ==
  [idx |-> idx, unit |-> tu, coin |-> coin.name, rate |-> coin.val,
   amount |-> amt, diff |-> diff,
   pct |-> IF Truthy(target_amount)
           THEN FMul(FDiv(diff, target_amount), FromInt(100))
           ELSE NaN]

RowOfAmount(target_amount, tu, coin, idx, amt) ==
  RowOf(target_amount, tu, coin, idx, amt, FAbs(FSub(amt, target_amount)))

ScenarioRow(seconds, target_amount, tu, coin, idx) ==
  RowOfAmount(target_amount, tu, coin, idx, compute_amount(seconds, tu, coin.val))

\* rows after the two nested loops: units outer, coins inner
ScenarioRows(seconds, target_amount, units_list, coins_list) ==
  <<>> \o [i \in 1..(Len(units_list) * Len(coins_list)) |->
             ScenarioRow(seconds, target_amount,
                         units_list[((i - 1) \div Len(coins_list)) + 1],
                         coins_list[((i - 1) % Len(coins_list)) + 1], i - 1)]

\* sort key order of sort_values: ascending, NaN last
KeyLt(a, b) == IF IsNum(a) /\ IsNum(b) THEN FCmp(a, b) < 0 ELSE IsNum(a) /\ ~IsNum(b)

\* rank[i]: how many rows have a key strictly below row i's
KeyRanks(rows) ==
  <<>> \o [i \in 1..Len(rows) |->
            Cardinality({j \in 1..Len(rows) : KeyLt(rows[j].diff, rows[i].diff)})]

\* every order of the indices S that is ascending in rank
RECURSIVE AscendingOrders(_, _)
AscendingOrders(rank, S) ==
  IF S = {} THEN {<<>>}
  ELSE LET least == {i \in S : \A j \in S : rank[i] <= rank[j]}
       IN  UNION {{<<i>> \o o : o \in AscendingOrders(rank, S \ {i})} : i \in least}

\* df.sort_values(by=["Abs Δ from target"], ascending=True) with the default
\* kind="quicksort": ascending by key, and rows with equal keys in an order the
\* library does not fix.  The set of the frames it can leave.
sort_values(rows) ==
  {<<>> \o [i \in 1..Len(rows) |-> rows[o[i]]] :
     o \in AscendingOrders(KeyRanks(rows), 1..Len(rows))}

\* df.head(n)
head(df, n) ==
  IF n >= 0 THEN SubSeq(df, 1, IF n < Len(df) THEN n ELSE Len(df))
  ELSE SubSeq(df, 1, IF Len(df) + n > 0 THEN Len(df) + n ELSE 0)

\* the outcomes of closest_scenarios: a pair (top, full), or the KeyError that
\* sort_values raises on the column-less frame pd.DataFrame([]) builds
SortAndCut(rows, top_k) ==
  IF Len(rows) = 0
  THEN {[raised |-> "KeyError", top |-> <<>>, full |-> <<>>]}
  ELSE {[raised |-> "", top |-> head(df, top_k), full |-> df] : df \in sort_values(rows)}

closest_scenarios(seconds, target_amount, units_list, coins_list, top_k) ==
  SortAndCut(ScenarioRows(seconds, target_amount, units_list, coins_list), top_k)

\* the sentence make_narrative returns, by its formatted parts
NarrativeOf(start_dt, end_dt, unit, rate, amount, units_val, disp_days) ==
  [from      |-> start_dt.date,
   through   |-> end_dt.date,
   count     |-> FmtScaled(units_val, 1),
   unit      |-> unit,
   suffix    |-> IF FEq(units_val, FromInt(1)) THEN "" ELSE "s",
   disp_days |-> FmtScaled(disp_days, 100),
   rate      |-> money(rate),
   amount    |-> money(amount)]

NarrativeAu(start_dt, end_dt, unit, rate, amount, inclusive_days_flag, au) ==
  NarrativeOf(start_dt, end_dt, unit, rate, amount,
              CASE unit = "second" -> au.seconds
                [] unit = "minute" -> au.minutes
                [] unit = "hour"   -> au.hours
                [] unit = "day"    -> au.days,
              FAdd(au.days, IF inclusive_days_flag THEN FromInt(1) ELSE Zero))

make_narrative(start_dt, end_dt, seconds, unit, rate, amount, inclusive_days_flag) ==
  NarrativeAu(start_dt, end_dt, unit, rate, amount, inclusive_days_flag, all_units(seconds))

(***************************************************************************)
(* Bounds and input sets                                                   *)
(***************************************************************************)
MaxDay == 1       \* dates are day ordinals 0..MaxDay
MaxSeconds == 3   \* whole seconds 1..MaxSeconds when a helper is called directly
MaxRows == 4      \* len(units_list) * len(coins_list) when the helper is called directly
MaxK == 3         \* top_k when the helper is called directly

Dates == 0..MaxDay

\* what a float slot holds before the script assigns it
Unset == [k |-> "unset", neg |-> FALSE, m |-> <<>>, e |-> 0]
NoDt  == [date |-> -1, sec |-> 0, us |-> 0]
NoDf  == [st |-> "unset", rows |-> <<>>]
NoNarr ==
  [from |-> -1, through |-> -1, count |-> FmtScaled(Zero, 1), unit |-> "",
   suffix |-> "", disp_days |-> FmtScaled(Zero, 1), rate |-> FmtScaled(Zero, 1),
   amount |-> FmtScaled(Zero, 1)]

\* target widgets: read only when the box is ticked (their defaults otherwise)
TargetInputs ==
  {[target_toggle |-> FALSE, target_amount |-> FromInt(400000),
    target_mode |-> "Show best preset combos"]}
  \cup {[target_toggle |-> TRUE, target_amount |-> Zero,
          target_mode |-> "Solve exact rate for current unit"]}
  \cup {[target_toggle |-> TRUE, target_amount |-> FromInt(400000), target_mode |-> m] :
          m \in {"Show best preset combos", "Solve exact rate for current unit"}}

\* projection widgets: read only when the box is ticked (their defaults otherwise)
FutureInputs ==
  {[add_future |-> FALSE, fut_years |-> Zero, fut_days |-> Zero],
   [add_future |-> TRUE, fut_years |-> FromInt(1), fut_days |-> FromInt(30)]}

Inputs ==
  {[start_date |-> sd, end_date |-> ed, inclusive_days |-> inc, unit |-> u,
    sel_preset |-> COIN_PRESETS[c].name,
    target_toggle |-> t.target_toggle, target_amount |-> t.target_amount,
    target_mode |-> t.target_mode,
    add_future |-> f.add_future, fut_years |-> f.fut_years, fut_days |-> f.fut_days] :
     sd \in Dates, ed \in Dates, inc \in BOOLEAN, u \in DOMAIN TIME_UNITS,
     c \in {1, Len(COIN_PRESETS)}, t \in TargetInputs, f \in FutureInputs}

(***************************************************************************)
(* One run of the script                                                   *)
(***************************************************************************)
VARIABLES
  inp,    \* the widget values the run reads (lines 182-220)
  pc,     \* where the run is
  g,      \* the script's globals
  ui,     \* the elements the run has put on the page, in order
  prev,   \* the run before this one: its widget values, globals and page
  call,   \* SpecFn: the helper called and its arguments
  ret     \* SpecFn: what it returned

vars == <<inp, pc, g, ui, prev, call, ret>>

\* applied_rate = dict(COIN_PRESETS)[sel_preset]
applied_rate(name) ==
  COIN_PRESETS[CHOOSE i \in 1..Len(COIN_PRESETS) : COIN_PRESETS[i].name = name].val

G0 ==
  [start_dt |-> NoDt, end_dt |-> NoDt,
   base_seconds |-> Unset, future_seconds |-> Unset, total_seconds |-> Unset,
   amount_now |-> Unset, amount_total |-> Unset,
   days_disp |-> Unset, days_total_disp |-> Unset,
   top_df |-> NoDf, full_df |-> NoDf, req_rate |-> Unset, narr |-> NoNarr]

NoInp ==
  [start_date |-> -1, end_date |-> -1, inclusive_days |-> FALSE, unit |-> "",
   sel_preset |-> "", target_toggle |-> FALSE, target_amount |-> Unset,
   target_mode |-> "", add_future |-> FALSE, fut_years |-> Unset, fut_days |-> Unset]

NoRun == [ran |-> FALSE, inp |-> NoInp, g |-> G0, ui |-> <<>>, pc |-> ""]

Elem(w, text, num) == [w |-> w, text |-> text, num |-> num]

NoCall == [fn |-> "", seconds |-> Zero, unit |-> "", x |-> Zero, units_list |-> <<>>,
           coins_list |-> <<>>, top_k |-> 0, flag |-> FALSE]
NoRet  == [val |-> Unset, back |-> Unset, shown |-> Elem("", "", <<>>), raised |-> "",
           top |-> <<>>, full |-> <<>>]

Init ==
  /\ inp \in Inputs
  /\ pc = "validate"
  /\ g = G0
  /\ ui = <<>>
  /\ prev = NoRun
  /\ call = NoCall
  /\ ret = NoRet

\* the check with st.stop() left out: the error is shown and the run goes on
ValidateNoStop ==
  /\ pc = "validate"
  /\ ui' = IF inp.end_date < inp.start_date
           THEN Append(ui, Elem("error", "End date must be on or after the date of loss.", <<>>))
           ELSE ui
  /\ pc' = "span"
  /\ UNCHANGED <<inp, g, prev, call, ret>>

\* lines 222-225
Validate ==
  /\ pc = "validate"
  /\ IF inp.end_date < inp.start_date
     THEN /\ ui' = Append(ui, Elem("error", "End date must be on or after the date of loss.", <<>>))
          /\ pc' = "stopped"
     ELSE /\ ui' = ui
          /\ pc' = "span"
  /\ UNCHANGED <<inp, g, prev, call, ret>>

\* the span with the inclusive flag pushing the end one day on
BuildSpanInclusive ==
  /\ pc = "span"
  /\ g' = [g EXCEPT !.start_dt = start_of_day(inp.start_date),
                    !.end_dt = end_of_day(inp.end_date),
                    !.base_seconds =
                       elapsed_seconds(start_of_day(inp.start_date),
                                       end_of_day(inp.end_date
                                                  + IF inp.inclusive_days THEN 1 ELSE 0))]
  /\ pc' = "future"
  /\ UNCHANGED <<inp, ui, prev, call, ret>>

\* lines 227-232
BuildSpan ==
  /\ pc = "span"
  /\ LET start_dt == start_of_day(inp.start_date)
         end_dt   == end_of_day(inp.end_date)
     IN  g' = [g EXCEPT !.start_dt = start_dt, !.end_dt = end_dt,
                        !.base_seconds = elapsed_seconds(start_dt, end_dt)]
  /\ pc' = "future"
  /\ UNCHANGED <<inp, ui, prev, call, ret>>

FutureSet(future_seconds) ==
  g' = [g EXCEPT !.future_seconds = future_seconds,
                 !.total_seconds = FAdd(g.base_seconds, future_seconds)]

\* lines 234-236
Future ==
  /\ pc = "future"
  /\ FutureSet(IF inp.add_future THEN add_future_seconds(inp.fut_days, inp.fut_years)
               ELSE Zero)
  /\ pc' = "hero"
  /\ UNCHANGED <<inp, ui, prev, call, ret>>

HeroShow(amount_now, amount_total) ==
  /\ g' = [g EXCEPT !.amount_now = amount_now, !.amount_total = amount_total]
  /\ ui' = ui \o <<Elem("metric", "Past Pain", <<money(amount_now)>>)>>
              \o (IF inp.add_future
                  THEN <<Elem("metric", "Past + Future", <<money(amount_total)>>)>>
                  ELSE <<>>)

HeroAt(rate) ==
  HeroShow(compute_amount(g.base_seconds, inp.unit, rate),
           compute_amount(g.total_seconds, inp.unit, rate))

\* lines 240-257
Hero ==
  /\ pc = "hero"
  /\ HeroAt(applied_rate(inp.sel_preset))
  /\ pc' = "breakdown"
  /\ UNCHANGED <<inp, prev, call, ret>>

\* the four st.write lines of a column (tb1 or tb2)
UnitLines(col, au, days, note) ==
  << Elem("write", col \o " Seconds", <<FmtScaled(au.seconds, 1)>>),
     Elem("write", col \o " Minutes", <<FmtScaled(au.minutes, 1)>>),
     Elem("write", col \o " Hours", <<FmtScaled(au.hours, 1)>>),
     Elem("write", col \o " Days" \o note, <<FmtScaled(days, 100)>>) >>

BreakdownShow(au_base, au_total, days_disp, days_total_disp, note) ==
  /\ g' = [g EXCEPT !.days_disp = days_disp, !.days_total_disp = days_total_disp]
  /\ ui' = ui \o UnitLines("tb1", au_base, days_disp, note)
              \o (IF inp.add_future
                  THEN <<Elem("write", "tb2 Projected end", <<>>)>>
                       \o UnitLines("tb2", au_total, days_total_disp, note)
                  ELSE << Elem("info", "No future window added.", <<>>) >>)

BreakdownOf(au_base, au_total, one, note) ==
  BreakdownShow(au_base, au_total, FAdd(au_base.days, one), FAdd(au_total.days, one), note)

\* lines 259-288 (the projected end date is put on the page as text only)
Breakdown ==
  /\ pc = "breakdown"
  /\ BreakdownOf(all_units(g.base_seconds), all_units(g.total_seconds),
                 IF inp.inclusive_days THEN FromInt(1) ELSE Zero,
                 IF inp.inclusive_days THEN " (inclusive display)" ELSE "")
  /\ pc' = "targeting"
  /\ UNCHANGED <<inp, prev, call, ret>>

\* lines 310-318: the solved rate and what is shown for it
SolveShown(req_rate) ==
  [req_rate |-> req_rate,
   elem |-> IF isfinite(req_rate)
            THEN Elem("success", "use a rate of", <<money(req_rate)>>)
            ELSE Elem("error", "Cannot solve for rate: zero elapsed units.", <<>>)]

SolveBranch(seconds, unit, target_amount) ==
  SolveShown(solve_rate_for_target(seconds, unit, target_amount))

SolveSet(b) ==
  /\ g' = [g EXCEPT !.top_df = [st |-> "None", rows |-> <<>>],
                    !.full_df = [st |-> "None", rows |-> <<>>],
                    !.req_rate = b.req_rate]
  /\ ui' = Append(ui, b.elem)

\* lines 290-318
Targeting ==
  /\ pc = "targeting"
  /\ IF inp.target_toggle /\ FGt(inp.target_amount, Zero)
     THEN IF inp.target_mode = "Show best preset combos"
          THEN \E r \in closest_scenarios(g.base_seconds, inp.target_amount,
                                          UnitKeys, COIN_PRESETS, 20) :
                 /\ g' = [g EXCEPT !.top_df = [st |-> "df", rows |-> r.top],
                                   !.full_df = [st |-> "df", rows |-> r.full]]
                 /\ ui' = Append(ui, Elem("dataframe", "view", <<>>))
          ELSE SolveSet(SolveBranch(g.base_seconds, inp.unit, inp.target_amount))
     ELSE /\ g' = [g EXCEPT !.top_df = [st |-> "None", rows |-> <<>>],
                            !.full_df = [st |-> "None", rows |-> <<>>]]
          /\ ui' = ui
  /\ pc' = "narrative"
  /\ UNCHANGED <<inp, prev, call, ret>>

NarrativeAt(rate) ==
  g' = [g EXCEPT !.narr =
          make_narrative(g.start_dt, g.end_dt, g.base_seconds, inp.unit, rate,
                         compute_amount(g.base_seconds, inp.unit, rate),
                         inp.inclusive_days)]

\* lines 320-330
Narrative ==
  /\ pc = "narrative"
  /\ NarrativeAt(applied_rate(inp.sel_preset))
  /\ ui' = Append(ui, Elem("text_area", "Copy-ready paragraph", <<>>))
  /\ pc' = "exports"
  /\ UNCHANGED <<inp, prev, call, ret>>

\* lines 332-348 (the PDF block, lines 350-374, renders values computed above
\* into a document and assigns none of them)
Exports ==
  /\ pc = "exports"
  /\ ui' = Append(ui, IF g.top_df.st = "df" /\ Len(g.top_df.rows) > 0
                      THEN Elem("download_button", "Download scenarios (CSV)", <<>>)
                      ELSE Elem("caption", "Run 'Show best preset combos'", <<>>))
  /\ pc' = "done"
  /\ UNCHANGED <<inp, g, prev, call, ret>>

\* lines 190-194: ticking or unticking the checkbox reruns the script from the
\* top with every other widget as it was
ToggleInclusive ==
  /\ pc \in {"done", "stopped"}
  /\ prev' = [ran |-> TRUE, inp |-> inp, g |-> g, ui |-> ui, pc |-> pc]
  /\ inp' = [inp EXCEPT !.inclusive_days = ~inp.inclusive_days]
  /\ pc' = "validate"
  /\ g' = G0
  /\ ui' = <<>>
  /\ UNCHANGED <<call, ret>>

Next ==
  \/ Validate
  \/ BuildSpan
  \/ Future
  \/ Hero
  \/ Breakdown
  \/ Targeting
  \/ Narrative
  \/ Exports
  \/ ToggleInclusive

Spec == Init /\ [][Next]_vars

(***************************************************************************)
(* The helpers called directly, on arguments the page itself never passes  *)
(* (a zero duration, a zero target, short or empty lists)                  *)
(***************************************************************************)
\* durations: zero, whole seconds, and the date-only spans from day 0
FnSeconds ==
  {Zero} \cup {FromInt(n) : n \in 1..MaxSeconds}
         \cup {elapsed_seconds(start_of_day(0), end_of_day(d)) : d \in Dates}

FnRates == {COIN_PRESETS[i].val : i \in 1..Len(COIN_PRESETS)}

\* targets: zero and the widget's default
FnTargets == {Zero, FromInt(400000)}

\* 2^60: a target so far above the amounts that the floats next to it cannot
\* tell their differences from it apart
BigTarget == FMul(FromInt(2^30), FromInt(2^30))

\* (seconds, target) pairs for the scenario search
FnSearches ==
  {<<d, t>> : d \in FnSeconds, t \in FnTargets} \cup {<<FromInt(MaxSeconds), BigTarget>>}

\* unit lists: runs of list(TIME_UNITS.keys()); preset lists: prefixes of COIN_PRESETS
FnUnitLists == {SubSeq(UnitKeys, a, b) : a \in 1..Len(UnitKeys), b \in 0..Len(UnitKeys)}

FnCoinLists == {SubSeq(COIN_PRESETS, 1, n) : n \in 0..Len(COIN_PRESETS)}

InitFn ==
  /\ inp = NoInp
  /\ pc = "fn"
  /\ g = G0
  /\ ui = <<>>
  /\ prev = NoRun
  /\ call = NoCall
  /\ ret = NoRet

RoundTripRet(amount, d, u) ==
  [NoRet EXCEPT !.val = amount, !.back = solve_rate_for_target(d, u, amount)]

\* lines 80-86: compute_amount, then solve_rate_for_target on its result
CallRoundTrip ==
  /\ pc = "fn"
  /\ \E d \in FnSeconds, u \in DOMAIN TIME_UNITS, r \in FnRates :
       /\ call' = [NoCall EXCEPT !.fn = "compute_amount", !.seconds = d, !.unit = u, !.x = r]
       /\ ret' = RoundTripRet(compute_amount(d, u, r), d, u)
  /\ pc' = "returned"
  /\ UNCHANGED <<inp, g, ui, prev>>

SolveRet(b) == [NoRet EXCEPT !.val = b.req_rate, !.shown = b.elem]

\* lines 84-86 and 310-318: solve_rate_for_target and what its caller shows
CallSolve ==
  /\ pc = "fn"
  /\ \E d \in FnSeconds, u \in DOMAIN TIME_UNITS, t \in FnTargets :
       /\ call' = [NoCall EXCEPT !.fn = "solve_rate_for_target", !.seconds = d,
                                 !.unit = u, !.x = t]
       /\ ret' = SolveRet(SolveBranch(d, u, t))
  /\ pc' = "returned"
  /\ UNCHANGED <<inp, g, ui, prev>>

\* lines 88-104: closest_scenarios
CallClosest ==
  /\ pc = "fn"
  /\ \E a \in FnSearches, U \in FnUnitLists, P \in FnCoinLists, k \in 0..MaxK :
       /\ Len(U) * Len(P) <= MaxRows
       /\ call' = [NoCall EXCEPT !.fn = "closest_scenarios", !.seconds = a[1], !.x = a[2],
                                 !.units_list = U, !.coins_list = P, !.top_k = k]
       /\ \E r \in closest_scenarios(a[1], a[2], U, P, k) :
            ret' = [NoRet EXCEPT !.raised = r.raised, !.top = r.top, !.full = r.full]
  /\ pc' = "returned"
  /\ UNCHANGED <<inp, g, ui, prev>>

NextFn ==
  \/ CallRoundTrip
  \/ CallSolve
  \/ CallClosest

SpecFn == InitFn /\ [][NextFn]_vars

(***************************************************************************)
(* Properties                                                              *)
(***************************************************************************)
InvalidRange == inp.end_date < inp.start_date

RangeError == Elem("error", "End date must be on or after the date of loss.", <<>>)

\* C1: when the end date is before the start date the run shows the
\* invalid-range error and halts at the check: no span, duration, amount,
\* scenario table, solved rate or narrative is ever computed, and nothing but
\* the error is put on the page.
C1_InvalidRangeHalts ==
  InvalidRange =>
    /\ pc \in {"validate", "stopped"}
    /\ g = G0
    /\ ui = IF pc = "stopped" THEN <<RangeError>> ELSE <<>>

C1_Witness == InvalidRange /\ pc = "stopped" /\ ui = <<RangeError>>

\* seconds / TIME_UNITS[unit], written out
UnitCount(d, u) == FDiv(d, FromInt(TIME_UNITS[u]))

\* C2: solving at a zero duration ends in the "cannot solve" message and no
\* non-finite value is returned as the rate; for a positive duration the
\* solve returns target / (d / seconds per unit) and that rate is shown.
C2_DegenerateSolveIsError ==
  call.fn = "solve_rate_for_target" =>
    IF call.seconds = Zero
    THEN ret.val.k # "nan" /\ ret.shown.w = "error"
    ELSE /\ ret.val = FDiv(call.x, UnitCount(call.seconds, call.unit))
         /\ ret.shown = Elem("success", "use a rate of", <<FmtScaled(ret.val, 100)>>)

Min(a, b) == IF a < b THEN a ELSE b

\* C3: closest_scenarios returns a full set of len(U) * len(P) rows, one per
\* (unit, preset) pair with amount = compute_amount and delta = |amount -
\* target|, and a top-K view of min(K, rows) rows, sorted non-decreasing by
\* delta, none above a row left out.
C3_FullSetAndTopK ==
  call.fn = "closest_scenarios" =>
    LET U == call.units_list
        P == call.coins_list
    IN  /\ ret.raised = ""
        /\ Len(ret.full) = Len(U) * Len(P)
        /\ \A i \in 1..Len(U), j \in 1..Len(P) :
             \E n \in 1..Len(ret.full) :
               /\ ret.full[n].unit = U[i]
               /\ ret.full[n].coin = P[j].name
               /\ ret.full[n].amount = FMul(UnitCount(call.seconds, U[i]), P[j].val)
               /\ ret.full[n].diff = FAbs(FSub(ret.full[n].amount, call.x))
        /\ Len(ret.top) = Min(call.top_k, Len(U) * Len(P))
        /\ \A i \in 1..Len(ret.top), j \in 1..Len(ret.top) :
             i < j => FLe(ret.top[i].diff, ret.top[j].diff)
        /\ \A i \in 1..Len(ret.top), j \in (Len(ret.top) + 1)..Len(ret.full) :
             FLe(ret.top[i].diff, ret.full[j].diff)

\* C4: with an empty unit list or an empty preset list closest_scenarios
\* returns an empty top-K view and an empty full set and raises nothing.
C4_EmptyInputEmptyResult ==
  (call.fn = "closest_scenarios" /\ (call.units_list = <<>> \/ call.coins_list = <<>>)) =>
    ret.raised = "" /\ ret.top = <<>> /\ ret.full = <<>>

\* rows with equal keys keep the order of the loop that built them
InLoopOrder(rows) ==
  \A i \in 1..Len(rows), j \in 1..Len(rows) :
    (i < j /\ rows[i].diff = rows[j].diff) => rows[i].idx < rows[j].idx

\* C5: the ranking is stable: two rows with the same delta stand in the order
\* of the units x presets loop, in the full ranked set and in the top-K view.
C5_TiesInEnumerationOrder ==
  call.fn = "closest_scenarios" => InLoopOrder(ret.full) /\ InLoopOrder(ret.top)

RowSet(rows) == {rows[i] : i \in 1..Len(rows)}

\* the number of hundredths that f"{x:,.2f}" prints
Hundredths(x) == FmtScaled(x, 100).n

DayLine(e) ==
  /\ e.w = "write"
  /\ e.text \in {"tb1 Days", "tb1 Days (inclusive display)",
                  "tb2 Days", "tb2 Days (inclusive display)"}

\* C6: two runs that differ only in the inclusive-days box have the same base
\* and total seconds, amounts, scenario rows and solved rate; the day count is
\* the other run's plus 1.0 and prints exactly 1.00 larger, in the breakdown
\* and in the narrative, and nothing else on the page differs.
C6_InclusiveIsDisplayOnly ==
  (pc = "done" /\ prev.ran /\ prev.pc = "done") =>
    LET on  == IF inp.inclusive_days THEN g ELSE prev.g
        off == IF inp.inclusive_days THEN prev.g ELSE g
    IN  /\ on.base_seconds = off.base_seconds
        /\ on.future_seconds = off.future_seconds
        /\ on.total_seconds = off.total_seconds
        /\ on.amount_now = off.amount_now
        /\ on.amount_total = off.amount_total
        /\ on.req_rate = off.req_rate
        /\ on.top_df.st = off.top_df.st
        /\ RowSet(on.top_df.rows) = RowSet(off.top_df.rows)
        /\ RowSet(on.full_df.rows) = RowSet(off.full_df.rows)
        /\ on.days_disp = FAdd(off.days_disp, FromInt(1))
        /\ on.days_total_disp = FAdd(off.days_total_disp, FromInt(1))
        /\ Hundredths(on.days_disp) = NAdd(Hundredths(off.days_disp), NFromInt(100))
        /\ Hundredths(on.days_total_disp)
             = NAdd(Hundredths(off.days_total_disp), NFromInt(100))
        /\ on.narr.disp_days.n = NAdd(off.narr.disp_days.n, NFromInt(100))
        /\ [on.narr EXCEPT !.disp_days = off.narr.disp_days] = off.narr
        /\ Len(ui) = Len(prev.ui)
        /\ \A i \in 1..Len(ui) :
             ui[i] = prev.ui[i] \/ (DayLine(ui[i]) /\ DayLine(prev.ui[i]))

C6_Witness ==
  /\ pc = "done" /\ prev.ran /\ prev.pc = "done"
  /\ inp.inclusive_days /\ inp.add_future
  /\ g.top_df.st = "df" /\ Len(g.top_df.rows) > 0

\* calendar days from the start date to the end date, counting both
DaysCounted == inp.end_date - inp.start_date + 1

\* C7: an accepted date-only span runs from midnight of the start date to
\* 23:59:59.999999 of the end date: its length is the days counted x 86400
\* seconds less one microsecond (as the nearest float), 86399.999999 s for a
\* same-day span, and always above zero.
C7_DateOnlySpan ==
  g.base_seconds # Unset =>
    /\ g.start_dt = [date |-> inp.start_date, sec |-> 0, us |-> 0]
    /\ DtSub(g.end_dt, g.start_dt)
         = [days |-> DaysCounted - 1, seconds |-> 86399, microseconds |-> 999999]
    /\ g.base_seconds
         = FDivNat(FALSE,
                   NSub(NMul(NFromInt(DaysCounted * 86400), NFromInt(1000000)), <<1>>),
                   0, NFromInt(1000000), 0)
    /\ (DaysCounted = 1 => g.base_seconds = FSub(FromInt(86400), Lit(1, 1000000)))
    /\ FGt(g.base_seconds, Zero)

C7_Witness ==
  g.base_seconds # Unset /\ inp.end_date = inp.start_date /\ FGt(g.base_seconds, Zero)

\* C8: the narrative's unit label is singular exactly when the count it
\* prints (rounded to an integer) is 1.
C8_SingularWhenShownOne ==
  g.narr # NoNarr =>
    ((~g.narr.count.nan /\ g.narr.count.n = <<1>>) <=> g.narr.suffix = "")

\* C9: in every row the percentage is delta / target * 100 when the target is
\* not zero, and is np.nan ("no value": not 0, not an error, nothing divided)
\* when the target is zero.
C9_PercentDelta ==
  (call.fn = "closest_scenarios" /\ ret.raised = "") =>
    \A rows \in {ret.full, ret.top} :
      \A i \in 1..Len(rows) :
        rows[i].pct = IF call.x = Zero THEN NaN
                      ELSE FMul(FDiv(rows[i].diff, call.x), FromInt(100))

C9_Witness ==
  /\ call.fn = "closest_scenarios" /\ call.x = Zero
  /\ Len(ret.top) > 0 /\ ret.top[1].pct = NaN

\* twice the gap between x and the next float away from zero
TwoUlps(x) ==
  [k |-> "num", neg |-> FALSE, m |-> <<1>>, e |-> x.e + NBitLen(x.m) - Prec + 1]

RoundTripCase == call.fn = "compute_amount" /\ FGt(call.seconds, Zero)

\* C10 as the spec states it: compute_amount(d, u, r) = (d / seconds per unit)
\* * r, and solving for the amount it returns gives back r exactly.
C10_RoundTripExact ==
  RoundTripCase =>
    /\ ret.val = FMul(UnitCount(call.seconds, call.unit), call.x)
    /\ ret.back = call.x

\* C10, amended: compute_amount(d, u, r) = (d / seconds per unit) * r in float
\* arithmetic, and solving for the amount it returns gives r back up to
\* rounding: a finite rate within two units in the last place of r.
C10_RoundTripWithinRounding ==
  RoundTripCase =>
    /\ ret.val = FMul(UnitCount(call.seconds, call.unit), call.x)
    /\ isfinite(ret.back)
    /\ FLe(FAbs(FSub(ret.back, call.x)), TwoUlps(call.x))

C10_Witness == RoundTripCase /\ isfinite(ret.back) /\ ret.back # call.x
====
